---- MODULE Spec2Model ----
(***************************************************************************)
(* Caprio Fashion API (src/server.js, src/db.js): the Express route        *)
(* handlers, the two access-guard middlewares, the startup admin           *)
(* bootstrap and the SQLite tables they work on.                           *)
(*                                                                         *)
(* Every async handler is cut at its storage awaits: one action for the    *)
(* synchronous prefix run when the request arrives (the middlewares and    *)
(* the code up to the first await) and one action per storage statement,   *)
(* which executes the statement atomically (SQLite runs one statement at   *)
(* a time on the single connection) and runs the continuation up to the    *)
(* next await.  bcrypt and jwt calls touch no shared state and are folded   *)
(* into the step of the statement next to them.  A statement's execution   *)
(* order is not fixed by the code, so the steps of different requests and  *)
(* of the bootstrap interleave freely.  Requests are the ones the rate     *)
(* limiter of server.js:19 lets through.  A slot keeps the response of its *)
(* last request until the next request takes it.  The schema is the SQL    *)
(* text of db.js:42-73, which db.exec runs at startup.                     *)
(***************************************************************************)
EXTENDS Integers, Sequences, FiniteSets, TLC

VARIABLES
    users,          \* rows of table users (db.js:43-50)
    userSeq,        \* AUTOINCREMENT counter of users
    products,       \* rows of table products (db.js:52-65)
    productSeq,     \* AUTOINCREMENT counter of products
    wishlists,      \* rows of table wishlists (db.js:67-73)
    wishSeq,        \* AUTOINCREMENT counter of wishlists
    up,             \* the process runs and listens (server.js:232)
    boot,           \* position of the db.exec callback (server.js:23-39)
    reqs,           \* the requests in flight, one per slot
    now,            \* the clock, in units of the token lifetime
    query           \* input and output of the catalog query builder

vars == <<users, userSeq, products, productSeq, wishlists, wishSeq, up, boot,
          reqs, now, query>>

dbVars == <<users, userSeq, products, productSeq, wishlists, wishSeq>>

---------------------------------------------------------------------------
(* Bounds of the model *)

MaxReq == 2
MaxTime == 1
MaxRows == 2

(* Program constants *)

TokenTtl == 1               \* expiresIn: '7d', the unit of the clock
IsAdminDefault == 0         \* users.is_admin DEFAULT 0

AdminEmail == "admin@caprio.com"
AdminPassword == "Admin123!"
JwtSecret == "dev_secret_change_me"

Slots == 1..MaxReq

(* Inputs.  "" stands for a missing or empty field: both are falsy. *)
Emails == {"", AdminEmail, "alice@x.com"}
Passwords == {"", "pw123456", AdminPassword}
Names == {"Alice"}

Falsy(v) == v = ""

---------------------------------------------------------------------------
(* bcrypt: a salted one-way hash; compare succeeds exactly on the plaintext *)
(* the hash was derived from.                                               *)

Hash(password) == <<"bcrypt", password>>

Compare(password, hash) == hash = <<"bcrypt", password>>

---------------------------------------------------------------------------
(* jsonwebtoken *)

NoClaims == [id |-> 0, email |-> "", is_admin |-> 0, exp |-> 0]

NoToken == [id |-> 0, email |-> "", is_admin |-> 0, exp |-> 0, sig |-> ""]

\* jwt.sign(payload, JWT_SECRET, { expiresIn: '7d' })
JwtSign(id, email, is_admin) ==
    [id |-> id, email |-> email, is_admin |-> is_admin,
     exp |-> now + TokenTtl, sig |-> JwtSecret]

\* jwt.verify(token, JWT_SECRET) returns the payload or throws
JwtValid(token) == token.sig = JwtSecret /\ now < token.exp

JwtPayload(token) ==
    [id |-> token.id, email |-> token.email, is_admin |-> token.is_admin,
     exp |-> token.exp]

---------------------------------------------------------------------------
(* The Authorization header: absent, or the text                           *)
(* scheme ++ sep spaces ++ cred.                                            *)

NoHeader == [present |-> FALSE, scheme |-> "", sep |-> 0, cred |-> NoToken]

Header(scheme, sep, cred) ==
    [present |-> TRUE, scheme |-> scheme, sep |-> sep, cred |-> cred]

\* auth.startsWith('Bearer ')
StartsWithBearer(h) == h.scheme = "Bearer" /\ h.sep >= 1

\* auth.split(' ')[1]: the text between the first and the second space
SplitToken(h) == IF h.sep = 1 THEN h.cred ELSE NoToken

---------------------------------------------------------------------------
(* Requests *)

\* cred records which kind of credentials the request came with; no
\* handler reads it
Idle ==
    [route |-> "", pc |-> "idle", cred |-> "", user |-> NoClaims,
     name |-> "", email |-> "", password |-> "", pid |-> 0, slug |-> "",
     payload |-> "", status |-> 0, msg |-> "", token |-> NoToken, rows |-> {}]

Free(s) == reqs[s].pc \in {"idle", "done", "uncaught"}

\* the requests to a route that have not been answered yet
InFlight(route) == {s \in Slots : reqs[s].route = route /\ ~Free(s)}

\* the schema exists once db.exec has called back; statements issued
\* earlier queue behind the exclusive exec
DbReady == up /\ boot \notin {"off", "exec"}

\* when the process ends, the requests in flight get no response; the
\* responses already sent stay with their clients
Dropped ==
    [s \in Slots |-> IF reqs[s].pc \in {"done", "uncaught"} THEN reqs[s] ELSE Idle]

\* res.status(code).json({ message })
Respond(r, code, message) ==
    [Idle EXCEPT !.route = r.route, !.cred = r.cred, !.email = r.email,
                 !.user = r.user, !.pid = r.pid, !.pc = "done",
                 !.status = code, !.msg = message]

\* res.json({ token })
RespondToken(r, tok) ==
    [Idle EXCEPT !.route = r.route, !.cred = r.cred, !.email = r.email,
                 !.user = r.user, !.pc = "done", !.status = 200, !.token = tok]

\* res.json(...) of the routes that return rows or a success flag
RespondRows(r, rows) ==
    [Idle EXCEPT !.route = r.route, !.cred = r.cred, !.user = r.user,
                 !.pid = r.pid, !.pc = "done", !.status = 200, !.rows = rows]

---------------------------------------------------------------------------
(* Table users *)

UsersByEmail(email) == {u \in users : u.email = email}

\* the table without its UNIQUE index on email
UsersEmailNotIndexed(email) == TRUE

\* email TEXT UNIQUE
UsersEmailUnique(email) == UsersByEmail(email) = {}

UserRow(id, name, email, hash, is_admin) ==
    [id |-> id, name |-> name, email |-> email, password |-> hash,
     is_admin |-> is_admin]

---------------------------------------------------------------------------
(* Process start and stop, admin bootstrap (server.js:22-39, 232-234) *)

Start ==
    /\ ~up
    /\ up' = TRUE
    /\ boot' = "exec"
    /\ UNCHANGED <<dbVars, reqs, now, query>>

\* the process is stopped (to be restarted): requests in flight are dropped
Stop ==
    /\ up
    /\ up' = FALSE
    /\ boot' = "off"
    /\ reqs' = Dropped
    /\ UNCHANGED <<dbVars, now, query>>

\* db.exec(initSql, ...): CREATE TABLE IF NOT EXISTS; a failure exits
BootExec(ok) ==
    /\ up /\ boot = "exec"
    /\ IF ok
       THEN /\ boot' = "select"
            /\ UNCHANGED <<up, reqs>>
       ELSE /\ up' = FALSE
            /\ boot' = "off"
            /\ reqs' = Dropped
    /\ UNCHANGED <<dbVars, now, query>>

\* a promise rejected inside the db.exec callback is handled by nobody:
\* the runtime either only warns or terminates the process
BootRejected ==
    \/ /\ boot' = "rejected"
       /\ UNCHANGED <<up, reqs>>
    \/ /\ up' = FALSE
       /\ boot' = "off"
       /\ reqs' = Dropped

\* const user = await getAsync('SELECT id FROM users WHERE email = ?')
BootSelect(ok) ==
    /\ up /\ boot = "select"
    /\ IF ~ok
       THEN BootRejected
       ELSE /\ boot' = IF UsersByEmail(AdminEmail) # {} THEN "done" ELSE "insert"
            /\ UNCHANGED <<up, reqs>>
    /\ UNCHANGED <<dbVars, now, query>>

\* await runAsync('INSERT INTO users (...) VALUES (?,?,?,1)')
BootInsert(ok) ==
    /\ up /\ boot = "insert"
    /\ IF ok /\ UsersEmailUnique(AdminEmail)
       THEN /\ users' = users \cup
                  {UserRow(userSeq + 1, "Admin", AdminEmail, Hash(AdminPassword), 1)}
            /\ userSeq' = userSeq + 1
            /\ boot' = "done"
            /\ UNCHANGED <<up, reqs>>
       ELSE /\ BootRejected
            /\ UNCHANGED <<users, userSeq>>
    /\ UNCHANGED <<products, productSeq, wishlists, wishSeq, now, query>>

---------------------------------------------------------------------------
(* POST /api/register (server.js:61-76) *)

Accept(s) == up /\ Free(s)

\* the slot a new request is given: the first one never used or, when there
\* is none, the first one whose response has been sent
Fresh(s) ==
    /\ Free(s)
    /\ \A t \in Slots :
          \/ ~Free(t)
          \/ (reqs[t].pc = "idle") = (reqs[s].pc = "idle") /\ s <= t
          \/ reqs[t].pc # "idle" /\ reqs[s].pc = "idle"

\* one request at a time
Alone(s) == s = 1 /\ \A t \in Slots : Free(t)

RegisterArrive(s, name, email, password) ==
    /\ Accept(s)
    /\ LET r == [Idle EXCEPT !.route = "register", !.name = name,
                             !.email = email, !.password = password]
       IN reqs' = [reqs EXCEPT ![s] =
              IF Falsy(email) \/ Falsy(password)
              THEN Respond(r, 400, "Email and password required")
              ELSE [r EXCEPT !.pc = "select"]]
    /\ UNCHANGED <<dbVars, up, boot, now, query>>

\* const exists = await getAsync('SELECT id FROM users WHERE email = ?')
RegisterSelect(s, ok) ==
    /\ DbReady
    /\ reqs[s].route = "register" /\ reqs[s].pc = "select"
    /\ reqs' = [reqs EXCEPT ![s] =
          IF ~ok THEN Respond(@, 500, "Server error")
          ELSE IF UsersByEmail(@.email) # {}
               THEN Respond(@, 400, "Email already registered")
               ELSE [@ EXCEPT !.pc = "insert"]]
    /\ UNCHANGED <<dbVars, up, boot, now, query>>

\* hash, INSERT INTO users (name, email, password), result.lastID, jwt.sign
RegisterInsert(s, ok) ==
    /\ DbReady
    /\ reqs[s].route = "register" /\ reqs[s].pc = "insert"
    /\ LET r == reqs[s]
           tok == JwtSign(userSeq + 1, r.email, 0)
       IN IF ok /\ UsersEmailUnique(r.email)
          THEN /\ users' = users \cup
                     {UserRow(userSeq + 1, r.name, r.email, Hash(r.password),
                              IsAdminDefault)}
               /\ userSeq' = userSeq + 1
               /\ reqs' = [reqs EXCEPT ![s] = RespondToken(r, tok)]
          ELSE /\ reqs' = [reqs EXCEPT ![s] = Respond(r, 500, "Server error")]
               /\ UNCHANGED <<users, userSeq>>
    /\ UNCHANGED <<products, productSeq, wishlists, wishSeq, up, boot, now, query>>

---------------------------------------------------------------------------
(* POST /api/login (server.js:78-91) *)

LoginArrive(s, email, password) ==
    /\ Accept(s)
    /\ reqs' = [reqs EXCEPT ![s] =
          [Idle EXCEPT !.route = "login", !.pc = "select", !.email = email,
                       !.password = password]]
    /\ UNCHANGED <<dbVars, up, boot, now, query>>

\* the token of a successful login, from the row it read
LoginTokenAdmin(user) == JwtSign(user.id, user.email, 1)

LoginToken(user) == JwtSign(user.id, user.email, user.is_admin)

\* getAsync('SELECT * FROM users WHERE email = ?'), bcrypt.compare, jwt.sign
LoginSelect(s, ok) ==
    /\ DbReady
    /\ reqs[s].route = "login" /\ reqs[s].pc = "select"
    /\ LET r == reqs[s]
           found == UsersByEmail(r.email)
       IN IF ~ok
          THEN reqs' = [reqs EXCEPT ![s] = Respond(r, 500, "Server error")]
          ELSE IF found = {}
          THEN reqs' = [reqs EXCEPT ![s] = Respond(r, 400, "Invalid email/password")]
          ELSE \E user \in found :
                 reqs' = [reqs EXCEPT ![s] =
                    IF Compare(r.password, user.password)
                    THEN RespondToken(r, LoginToken(user))
                    ELSE Respond(r, 400, "Invalid email/password")]
    /\ UNCHANGED <<dbVars, up, boot, now, query>>

---------------------------------------------------------------------------
(* The two middlewares (server.js:42-58) *)

\* jwt.decode in the place of jwt.verify: signature and expiry unchecked
AuthMiddlewareDecodeOnly(r, h) ==
    IF ~h.present \/ ~StartsWithBearer(h)
    THEN Respond(r, 401, "Unauthorized")
    ELSE [r EXCEPT !.user = JwtPayload(SplitToken(h)), !.pc = "next"]

AuthMiddleware(r, h) ==
    IF ~h.present \/ ~StartsWithBearer(h)
    THEN Respond(r, 401, "Unauthorized")
    ELSE IF JwtValid(SplitToken(h))
         THEN [r EXCEPT !.user = JwtPayload(SplitToken(h)), !.pc = "next"]
         ELSE Respond(r, 401, "Invalid token")

\* the check of req.user alone, without the is_admin flag
AdminMiddlewareAnyUser(r) ==
    IF r.user = NoClaims
    THEN Respond(r, 403, "Admin only")
    ELSE r

AdminMiddleware(r) ==
    IF r.user = NoClaims \/ r.user.is_admin = 0
    THEN Respond(r, 403, "Admin only")
    ELSE r

\* app.<verb>(path, authMiddleware, handler)
Authenticated(r, h) == AuthMiddleware(r, h)

\* app.<verb>(path, authMiddleware, adminMiddleware, handler)
AdminOnly(r, h) ==
    LET a == AuthMiddleware(r, h)
    IN IF a.pc = "done" THEN a ELSE AdminMiddleware(a)

\* the handler starts: its first statement is issued
Enter(r, pc) == IF r.pc = "done" THEN r ELSE [r EXCEPT !.pc = pc]

---------------------------------------------------------------------------
(* Credentials a client can send.  The tokens in circulation are the ones  *)
(* register and login have signed: the claims of a user row, issued at     *)
(* some time up to now.                                                    *)

SignedTokens ==
    {[id |-> u.id, email |-> u.email, is_admin |-> u.is_admin,
      exp |-> t + TokenTtl, sig |-> JwtSecret] : u \in users, t \in 0..now}

\* a signed token's claims with the admin flag raised, under another key
ForgedTokens ==
    {[t EXCEPT !.is_admin = 1, !.sig = "other_secret"] :
        t \in {x \in SignedTokens : x.is_admin = 0}}

\* a string that is no token
Garbage == [NoToken EXCEPT !.sig = "garbage"]

\* no header; 'Bearer <cred>' for every credential; and around a signed
\* token the other scheme, no space and two spaces
Headers ==
    {NoHeader}
    \cup {Header("Bearer", 1, cred) : cred \in SignedTokens \cup ForgedTokens \cup {Garbage}}
    \cup {Header("Basic", 1, cred) : cred \in {x \in SignedTokens : x.exp = now + TokenTtl}}
    \cup {Header("Bearer", sep, cred) :
            sep \in {0, 2}, cred \in {x \in SignedTokens : x.exp = now + TokenTtl}}

\* the kind of credentials a header is, as the access guard's contract
\* names them
CredKind(h) ==
    IF ~h.present THEN "absent"
    ELSE IF h.scheme # "Bearer" \/ h.sep = 0 THEN "not bearer"
    ELSE IF h.sep # 1 \/ h.cred = Garbage THEN "malformed"
    ELSE IF h.cred.sig # JwtSecret THEN "wrongly signed"
    ELSE IF h.cred.exp <= now THEN "expired"
    ELSE IF h.cred.is_admin = 1 THEN "valid admin"
    ELSE "valid user"

Arrived(route, h) == [Idle EXCEPT !.route = route, !.cred = CredKind(h)]

---------------------------------------------------------------------------
(* GET /api/me (server.js:93-96) *)

MeArrive(s, h) ==
    /\ Accept(s)
    /\ reqs' = [reqs EXCEPT ![s] = Enter(Authenticated(Arrived("me", h), h), "select")]
    /\ UNCHANGED <<dbVars, up, boot, now, query>>

\* a storage promise rejects in a handler without try/catch: the rejection
\* leaves the handler.  Express 4 drops it and the request never gets a
\* response; a runtime that ends the process on unhandled rejections takes
\* every request in flight with it; Express 5 answers through its default
\* error handler
Uncaught(s) ==
    \/ /\ reqs' = [reqs EXCEPT ![s] = [@ EXCEPT !.pc = "hung"]]
       /\ UNCHANGED <<up, boot>>
    \/ /\ reqs' = [Dropped EXCEPT ![s] = [reqs[s] EXCEPT !.pc = "hung"]]
       /\ up' = FALSE
       /\ boot' = "off"
    \/ /\ reqs' = [reqs EXCEPT ![s] =
             [Respond(@, 500, "Internal Server Error") EXCEPT !.pc = "uncaught"]]
       /\ UNCHANGED <<up, boot>>

MeSelect(s, ok) ==
    /\ DbReady
    /\ reqs[s].route = "me" /\ reqs[s].pc = "select"
    /\ IF ok
       THEN /\ reqs' = [reqs EXCEPT ![s] =
                 RespondRows(@, {u.id : u \in {x \in users : x.id = @.user.id}})]
            /\ UNCHANGED <<up, boot>>
       ELSE Uncaught(s)
    /\ UNCHANGED <<dbVars, now, query>>

---------------------------------------------------------------------------
(* Table products *)

Null == "NULL"              \* the value bound for a field the body lacks

\* the bodies a client sends to the admin product routes: the two demo
\* products of server.js:200-221 and a body with neither name nor slug
Payload(key) ==
    CASE key = "hoodie" ->
           [name |-> "Everest Adventure Hoodie", slug |-> "everest-adventure-hoodie",
            description |-> "Cozy hoodie built for play, with reinforced seams and soft fleece.",
            category |-> "Hoodies & Sweatshirts", age_group |-> "Big Kid"]
      [] key = "tee" ->
           [name |-> "Cosmic Explorer Glow-in-the-Dark Tee", slug |-> "cosmic-explorer-tee",
            description |-> "Glow-in-the-dark organic tee for little astronauts.",
            category |-> "Graphic Tees", age_group |-> "Little Kid"]
      [] OTHER ->
           [name |-> Null, slug |-> Null, description |-> Null,
            category |-> "", age_group |-> ""]

ProductRow(id, body) ==
    [id |-> id, name |-> body.name, slug |-> body.slug,
     description |-> body.description, category |-> body.category,
     age_group |-> body.age_group]

\* name TEXT NOT NULL, slug TEXT UNIQUE (NULLs are distinct), for a row
\* written over the rows `others`
ProductConstraints(body, others) ==
    /\ body.name # Null
    /\ body.slug = Null \/ \A p \in others : p.slug # body.slug

\* the slug conflict alone, as INSERT OR IGNORE sees it: NOT NULL still fails
ProductIgnored(body, others) ==
    body.slug # Null /\ \E p \in others : p.slug = body.slug

\* WHERE id = ? OR slug = ? with the one path parameter, a number or a text
ProductByKey(pid, slug) ==
    {p \in products : (pid # 0 /\ p.id = pid) \/ (slug # "" /\ p.slug = slug)}

---------------------------------------------------------------------------
(* Table wishlists *)

NullId == 0                 \* product_id missing from the body: NULL

WishRow(id, user_id, product_id) ==
    [id |-> id, user_id |-> user_id, product_id |-> product_id]

WishOf(user_id, product_id) ==
    {w \in wishlists : w.user_id = user_id /\ w.product_id = product_id}

\* the table without UNIQUE(user_id, product_id)
WishNotIndexed(user_id, product_id) == TRUE

\* UNIQUE(user_id, product_id): rows with a NULL never conflict
WishUnique(user_id, product_id) ==
    product_id = NullId \/ WishOf(user_id, product_id) = {}

---------------------------------------------------------------------------
(* GET /api/products/:id (server.js:128-135) *)

ProductArrive(s, pid, slug) ==
    /\ Accept(s)
    /\ reqs' = [reqs EXCEPT ![s] =
          [Idle EXCEPT !.route = "product", !.pc = "select", !.pid = pid,
                       !.slug = slug]]
    /\ UNCHANGED <<dbVars, up, boot, now, query>>

ProductSelect(s, ok) ==
    /\ DbReady
    /\ reqs[s].route = "product" /\ reqs[s].pc = "select"
    /\ IF ok
       THEN /\ LET found == ProductByKey(reqs[s].pid, reqs[s].slug)
               IN IF found = {}
                  THEN reqs' = [reqs EXCEPT ![s] = Respond(@, 404, "Not found")]
                  ELSE \E row \in found :
                         reqs' = [reqs EXCEPT ![s] = RespondRows(@, {row.id})]
            /\ UNCHANGED <<up, boot>>
       ELSE Uncaught(s)
    /\ UNCHANGED <<dbVars, now, query>>

---------------------------------------------------------------------------
(* Admin product routes (server.js:138-171) *)

AdminCreateArrive(s, h, key) ==
    /\ Accept(s)
    /\ productSeq + Cardinality(InFlight("admin create")) < MaxRows
    /\ reqs' = [reqs EXCEPT ![s] =
          Enter([AdminOnly(Arrived("admin create", h), h) EXCEPT !.payload = key],
                "insert")]
    /\ UNCHANGED <<dbVars, up, boot, now, query>>

\* INSERT INTO products (...) VALUES (?,?,?,?,?,?,?,?)
AdminCreateInsert(s, ok) ==
    /\ DbReady
    /\ reqs[s].route = "admin create" /\ reqs[s].pc = "insert"
    /\ LET body == Payload(reqs[s].payload)
       IN IF ok /\ ProductConstraints(body, products)
          THEN /\ products' = products \cup {ProductRow(productSeq + 1, body)}
               /\ productSeq' = productSeq + 1
               /\ reqs' = [reqs EXCEPT ![s] = RespondRows(@, {productSeq + 1})]
          ELSE /\ reqs' = [reqs EXCEPT ![s] = Respond(@, 500, "Server error")]
               /\ UNCHANGED <<products, productSeq>>
    /\ UNCHANGED <<users, userSeq, wishlists, wishSeq, up, boot, now, query>>

AdminUpdateArrive(s, h, pid, key) ==
    /\ Accept(s)
    /\ reqs' = [reqs EXCEPT ![s] =
          Enter([AdminOnly([Arrived("admin update", h) EXCEPT !.pid = pid], h)
                    EXCEPT !.payload = key],
                "update")]
    /\ UNCHANGED <<dbVars, up, boot, now, query>>

\* UPDATE products SET name=?, slug=?, ... WHERE id=?
AdminUpdateRun(s, ok) ==
    /\ DbReady
    /\ reqs[s].route = "admin update" /\ reqs[s].pc = "update"
    /\ LET body == Payload(reqs[s].payload)
           hit == {p \in products : p.id = reqs[s].pid}
       IN IF ok /\ (hit = {} \/ ProductConstraints(body, products \ hit))
          THEN /\ products' = (products \ hit) \cup {ProductRow(p.id, body) : p \in hit}
               /\ reqs' = [reqs EXCEPT ![s] = RespondRows(@, {})]
          ELSE /\ reqs' = [reqs EXCEPT ![s] = Respond(@, 500, "Server error")]
               /\ UNCHANGED products
    /\ UNCHANGED <<users, userSeq, productSeq, wishlists, wishSeq, up, boot, now, query>>

AdminDeleteArrive(s, h, pid) ==
    /\ Accept(s)
    /\ reqs' = [reqs EXCEPT ![s] =
          Enter(AdminOnly([Arrived("admin delete", h) EXCEPT !.pid = pid], h),
                "delete")]
    /\ UNCHANGED <<dbVars, up, boot, now, query>>

\* DELETE FROM products WHERE id = ?
AdminDeleteRun(s, ok) ==
    /\ DbReady
    /\ reqs[s].route = "admin delete" /\ reqs[s].pc = "delete"
    /\ IF ok
       THEN /\ products' = {p \in products : p.id # reqs[s].pid}
            /\ reqs' = [reqs EXCEPT ![s] = RespondRows(@, {})]
       ELSE /\ reqs' = [reqs EXCEPT ![s] = Respond(@, 500, "Server error")]
            /\ UNCHANGED products
    /\ UNCHANGED <<users, userSeq, productSeq, wishlists, wishSeq, up, boot, now, query>>

---------------------------------------------------------------------------
(* POST /api/admin/seed-demo (server.js:198-230) *)

SeedArrive(s, h) ==
    /\ Accept(s)
    /\ productSeq + Cardinality(InFlight("seed")) < MaxRows
    /\ reqs' = [reqs EXCEPT ![s] =
          Enter(AdminOnly(Arrived("seed", h), h), "seed hoodie")]
    /\ UNCHANGED <<dbVars, up, boot, now, query>>

\* one turn of the loop: INSERT OR IGNORE INTO products (...)
SeedInsert(s, ok) ==
    /\ DbReady
    /\ reqs[s].route = "seed" /\ reqs[s].pc \in {"seed hoodie", "seed tee"}
    /\ LET first == reqs[s].pc = "seed hoodie"
           body == Payload(IF first THEN "hoodie" ELSE "tee")
           after == IF first THEN [reqs[s] EXCEPT !.pc = "seed tee"]
                    ELSE RespondRows(reqs[s], {})
       IN IF ~ok
          THEN /\ reqs' = [reqs EXCEPT ![s] = Respond(@, 500, "err")]
               /\ UNCHANGED <<products, productSeq>>
          ELSE IF ProductIgnored(body, products)
          THEN /\ reqs' = [reqs EXCEPT ![s] = after]
               /\ UNCHANGED <<products, productSeq>>
          ELSE /\ products' = products \cup {ProductRow(productSeq + 1, body)}
               /\ productSeq' = productSeq + 1
               /\ reqs' = [reqs EXCEPT ![s] = after]
    /\ UNCHANGED <<users, userSeq, wishlists, wishSeq, up, boot, now, query>>

---------------------------------------------------------------------------
(* Wishlist routes (server.js:174-195) *)

WishlistGetArrive(s, h) ==
    /\ Accept(s)
    /\ reqs' = [reqs EXCEPT ![s] =
          Enter(Authenticated(Arrived("wishlist get", h), h), "select")]
    /\ UNCHANGED <<dbVars, up, boot, now, query>>

\* the rows of the statement's WHERE clause: another user's rows too
WishlistRowsOfAll(user_id) ==
    {w \in wishlists : \E p \in products : p.id = w.product_id}

\* SELECT ... FROM wishlists w JOIN products p ON p.id = w.product_id
\* WHERE w.user_id = ?
WishlistRowsOf(user_id) ==
    {w \in wishlists : w.user_id = user_id /\ \E p \in products : p.id = w.product_id}

WishlistGetSelect(s, ok) ==
    /\ DbReady
    /\ reqs[s].route = "wishlist get" /\ reqs[s].pc = "select"
    /\ IF ok
       THEN /\ reqs' = [reqs EXCEPT ![s] =
                 RespondRows(@, {w.id : w \in WishlistRowsOf(@.user.id)})]
            /\ UNCHANGED <<up, boot>>
       ELSE Uncaught(s)
    /\ UNCHANGED <<dbVars, now, query>>

WishlistAddArrive(s, h, product_id) ==
    /\ Accept(s)
    /\ wishSeq + Cardinality(InFlight("wishlist add")) < MaxRows
    /\ reqs' = [reqs EXCEPT ![s] =
          Enter(Authenticated([Arrived("wishlist add", h) EXCEPT !.pid = product_id], h),
                "insert")]
    /\ UNCHANGED <<dbVars, up, boot, now, query>>

\* INSERT OR IGNORE INTO wishlists (user_id, product_id) VALUES (?,?)
WishlistAddInsert(s, ok) ==
    /\ DbReady
    /\ reqs[s].route = "wishlist add" /\ reqs[s].pc = "insert"
    /\ LET r == reqs[s]
       IN IF ~ok
          THEN /\ reqs' = [reqs EXCEPT ![s] = Respond(r, 500, "Server error")]
               /\ UNCHANGED <<wishlists, wishSeq>>
          ELSE IF WishUnique(r.user.id, r.pid)
          THEN /\ wishlists' = wishlists \cup {WishRow(wishSeq + 1, r.user.id, r.pid)}
               /\ wishSeq' = wishSeq + 1
               /\ reqs' = [reqs EXCEPT ![s] = RespondRows(r, {})]
          ELSE /\ reqs' = [reqs EXCEPT ![s] = RespondRows(r, {})]
               /\ UNCHANGED <<wishlists, wishSeq>>
    /\ UNCHANGED <<users, userSeq, products, productSeq, up, boot, now, query>>

WishlistRemoveArrive(s, h, product_id) ==
    /\ Accept(s)
    /\ reqs' = [reqs EXCEPT ![s] =
          Enter(Authenticated([Arrived("wishlist remove", h) EXCEPT !.pid = product_id], h),
                "delete")]
    /\ UNCHANGED <<dbVars, up, boot, now, query>>

\* DELETE FROM wishlists WHERE user_id = ? AND product_id = ?
WishlistRemoveRun(s, ok) ==
    /\ DbReady
    /\ reqs[s].route = "wishlist remove" /\ reqs[s].pc = "delete"
    /\ IF ok
       THEN /\ wishlists' = wishlists \ WishOf(reqs[s].user.id, reqs[s].pid)
            /\ reqs' = [reqs EXCEPT ![s] = RespondRows(@, {})]
            /\ UNCHANGED <<up, boot>>
       ELSE /\ Uncaught(s)
            /\ UNCHANGED wishlists
    /\ UNCHANGED <<users, userSeq, products, productSeq, wishSeq, now, query>>

---------------------------------------------------------------------------
(* GET /api/products (server.js:99-126).  The statement text is kept as    *)
(* the sequence of the pieces the handler appends.                          *)

NoQuery == [category |-> "", age_group |-> "", q |-> "", sort |-> "",
            sql |-> <<>>, params |-> <<>>]

\* the category condition built by pasting the value into the text
ConditionsInterpolated(category, age_group, q) ==
    (IF Falsy(category) THEN <<>> ELSE <<"category = '", category, "'">>)
    \o (IF Falsy(age_group) THEN <<>> ELSE <<"age_group = ?">>)
    \o (IF Falsy(q) THEN <<>> ELSE <<"(name LIKE ? OR description LIKE ?)">>)

\* conditions.push(...); params.push(...)
Conditions(category, age_group, q) ==
    (IF Falsy(category) THEN <<>> ELSE <<"category = ?">>)
    \o (IF Falsy(age_group) THEN <<>> ELSE <<"age_group = ?">>)
    \o (IF Falsy(q) THEN <<>> ELSE <<"(name LIKE ? OR description LIKE ?)">>)

Params(category, age_group, q) ==
    (IF Falsy(category) THEN <<>> ELSE <<category>>)
    \o (IF Falsy(age_group) THEN <<>> ELSE <<age_group>>)
    \o (IF Falsy(q) THEN <<>> ELSE <<"%" \o q \o "%", "%" \o q \o "%">>)

\* conditions.join(' AND ')
RECURSIVE JoinAnd(_)
JoinAnd(conditions) ==
    IF Len(conditions) <= 1 THEN conditions
    ELSE <<Head(conditions), " AND ">> \o JoinAnd(Tail(conditions))

OrderBy(sort) ==
    IF sort = "price_asc" THEN " ORDER BY price ASC"
    ELSE IF sort = "price_desc" THEN " ORDER BY price DESC"
    ELSE IF sort = "newest" THEN " ORDER BY created_at DESC"
    ELSE " ORDER BY id DESC"

BuildQuery(category, age_group, q, sort) ==
    LET conditions == Conditions(category, age_group, q)
    IN [category |-> category, age_group |-> age_group, q |-> q, sort |-> sort,
        sql |-> <<"SELECT * FROM products">>
                \o (IF Len(conditions) > 0 THEN <<" WHERE ">> \o JoinAnd(conditions)
                    ELSE <<>>)
                \o <<OrderBy(sort)>>,
        params |-> Params(category, age_group, q)]

\* text LIKE '%q%' over the texts of the model: a substring match that
\* ignores case
Like(text, q) ==
    <<q, text>> \in
       {<<"hood", "Everest Adventure Hoodie">>,
        <<"hood", "Cozy hoodie built for play, with reinforced seams and soft fleece.">>}

\* the rows the built statement selects; their order is left out
Selected(built) ==
    {p \in products :
        /\ Falsy(built.category) \/ p.category = built.category
        /\ Falsy(built.age_group) \/ p.age_group = built.age_group
        /\ Falsy(built.q) \/ Like(p.name, built.q) \/ Like(p.description, built.q)}

ProductsArrive(s, category, age_group, q, sort) ==
    /\ Accept(s)
    /\ query' = BuildQuery(category, age_group, q, sort)
    /\ reqs' = [reqs EXCEPT ![s] = [Idle EXCEPT !.route = "products", !.pc = "all"]]
    /\ UNCHANGED <<dbVars, up, boot, now>>

\* const rows = await allAsync(sql, params)
ProductsAll(s, ok) ==
    /\ DbReady
    /\ reqs[s].route = "products" /\ reqs[s].pc = "all"
    /\ reqs' = [reqs EXCEPT ![s] =
          IF ok THEN RespondRows(@, {p.id : p \in Selected(query)})
          ELSE Respond(@, 500, "Server error")]
    /\ UNCHANGED <<dbVars, up, boot, now, query>>

---------------------------------------------------------------------------
(* Accounts: a fresh database file, process starts and stops, register and *)
(* login requests.                                                         *)

Init ==
    /\ users = {}
    /\ userSeq = 0
    /\ products = {}
    /\ productSeq = 0
    /\ wishlists = {}
    /\ wishSeq = 0
    /\ up = FALSE
    /\ boot = "off"
    /\ reqs = [s \in Slots |-> Idle]
    /\ now = 0
    /\ query = NoQuery

Next ==
    \/ Start
    \/ Stop
    \/ BootExec(TRUE)
    \/ BootSelect(TRUE)
    \/ BootInsert(TRUE)
    \/ \E s \in Slots, name \in Names, email \in Emails, password \in {"", "pw123456"} :
          Fresh(s) /\ RegisterArrive(s, name, email, password)
    \/ \E s \in Slots : RegisterSelect(s, TRUE)
    \/ \E s \in Slots : RegisterInsert(s, TRUE)

Spec == Init /\ [][Next]_vars

---------------------------------------------------------------------------
(* Credentials: register and login requests against a running server *)

NextLogin ==
    \/ Start
    \/ BootExec(TRUE)
    \/ BootSelect(TRUE)
    \/ BootInsert(TRUE)
    \/ \E s \in Slots, name \in Names, email \in Emails \ {""} :
          Fresh(s) /\ RegisterArrive(s, name, email, "pw123456")
    \/ \E s \in Slots : RegisterSelect(s, TRUE)
    \/ \E s \in Slots : RegisterInsert(s, TRUE)
    \/ \E s \in Slots, email \in Emails, password \in Passwords :
          Fresh(s) /\ LoginArrive(s, email, password)
    \/ \E s \in Slots : LoginSelect(s, TRUE)

SpecLogin == Init /\ [][NextLogin]_vars

---------------------------------------------------------------------------
(* Protected routes: a server that has finished its bootstrap and has      *)
(* registered one user, then any requests to /api/me, the admin routes and *)
(* the wishlist routes, while time passes.                                 *)

SeededUsers ==
    {UserRow(1, "Admin", AdminEmail, Hash(AdminPassword), 1),
     UserRow(2, "Alice", "alice@x.com", Hash("pw123456"), IsAdminDefault)}

InitSeeded ==
    /\ users = SeededUsers
    /\ userSeq = 2
    /\ products = {}
    /\ productSeq = 0
    /\ wishlists = {}
    /\ wishSeq = 0
    /\ up = TRUE
    /\ boot = "done"
    /\ reqs = [s \in Slots |-> Idle]
    /\ now = 0
    /\ query = NoQuery

Tick ==
    /\ now < MaxTime
    /\ now' = now + 1
    /\ UNCHANGED <<dbVars, up, boot, reqs, query>>

\* every protected route, with every kind of credentials, one request at a
\* time: both middlewares decide in the synchronous prefix of the request
NextGuard ==
    \/ Tick
    \/ \E s \in Slots, h \in Headers : Alone(s) /\ MeArrive(s, h)
    \/ \E s \in Slots, h \in Headers : Alone(s) /\ AdminCreateArrive(s, h, "hoodie")
    \/ \E s \in Slots, h \in Headers : Alone(s) /\ AdminUpdateArrive(s, h, 1, "tee")
    \/ \E s \in Slots, h \in Headers : Alone(s) /\ AdminDeleteArrive(s, h, 1)
    \/ \E s \in Slots, h \in Headers : Alone(s) /\ SeedArrive(s, h)
    \/ \E s \in Slots, h \in Headers : Alone(s) /\ WishlistGetArrive(s, h)
    \/ \E s \in Slots, h \in Headers : Alone(s) /\ WishlistAddArrive(s, h, 1)
    \/ \E s \in Slots, h \in Headers : Alone(s) /\ WishlistRemoveArrive(s, h, 1)
    \/ \E s \in Slots : MeSelect(s, TRUE)
    \/ \E s \in Slots : AdminCreateInsert(s, TRUE)
    \/ \E s \in Slots : AdminUpdateRun(s, TRUE)
    \/ \E s \in Slots : AdminDeleteRun(s, TRUE)
    \/ \E s \in Slots : SeedInsert(s, TRUE)
    \/ \E s \in Slots : WishlistGetSelect(s, TRUE)
    \/ \E s \in Slots : WishlistAddInsert(s, TRUE)
    \/ \E s \in Slots : WishlistRemoveRun(s, TRUE)

SpecGuard == InitSeeded /\ [][NextGuard]_vars

---------------------------------------------------------------------------
(* Wishlists: the seeded server after seed-demo, two users holding valid   *)
(* tokens, overlapping wishlist requests.                                  *)

DemoProducts == {ProductRow(1, Payload("hoodie")), ProductRow(2, Payload("tee"))}

InitDemo ==
    /\ users = SeededUsers
    /\ userSeq = 2
    /\ products = DemoProducts
    /\ productSeq = 2
    /\ wishlists = {}
    /\ wishSeq = 0
    /\ up = TRUE
    /\ boot = "done"
    /\ reqs = [s \in Slots |-> Idle]
    /\ now = 0
    /\ query = NoQuery

Bearers == {Header("Bearer", 1, t) : t \in SignedTokens}

NextWishlist ==
    \/ \E s \in Slots, h \in Bearers : Fresh(s) /\ WishlistGetArrive(s, h)
    \/ \E s \in Slots, h \in Bearers, pid \in {NullId, 1} :
          Fresh(s) /\ WishlistAddArrive(s, h, pid)
    \/ \E s \in Slots, h \in Bearers : Fresh(s) /\ WishlistRemoveArrive(s, h, 1)
    \/ \E s \in Slots : WishlistGetSelect(s, TRUE)
    \/ \E s \in Slots : WishlistAddInsert(s, TRUE)
    \/ \E s \in Slots : WishlistRemoveRun(s, TRUE)

SpecWishlist == InitDemo /\ [][NextWishlist]_vars

---------------------------------------------------------------------------
(* The catalog: product list requests with every combination of filters    *)

Categories == {"", "Graphic Tees", "x' OR '1'='1"}
AgeGroups == {"", "Big Kid", "'; DROP TABLE products; --"}
Searches == {"", "hood", "%' OR 1=1 --"}
Sorts == {"", "price_asc", "price_desc", "newest", "id; DROP TABLE users"}

NextCatalog ==
    \/ \E s \in Slots, category \in Categories, age_group \in AgeGroups,
          q \in Searches, sort \in Sorts :
          Alone(s) /\ ProductsArrive(s, category, age_group, q, sort)
    \/ \E s \in Slots : ProductsAll(s, TRUE)

SpecCatalog == InitDemo /\ [][NextCatalog]_vars

---------------------------------------------------------------------------
(* Storage failures: every route, one request at a time, each statement    *)
(* either succeeding or failing                                            *)

NextFaults ==
    \/ \E s \in Slots, email \in {"alice@x.com", "bob@x.com"} :
          Alone(s) /\ RegisterArrive(s, "Bob", email, "pw123456")
    \/ \E s \in Slots, ok \in BOOLEAN : RegisterSelect(s, ok)
    \/ \E s \in Slots, ok \in BOOLEAN : RegisterInsert(s, ok)
    \/ \E s \in Slots : Alone(s) /\ LoginArrive(s, "alice@x.com", "pw123456")
    \/ \E s \in Slots, ok \in BOOLEAN : LoginSelect(s, ok)
    \/ \E s \in Slots, h \in Bearers : Alone(s) /\ MeArrive(s, h)
    \/ \E s \in Slots, ok \in BOOLEAN : MeSelect(s, ok)
    \/ \E s \in Slots : Alone(s) /\ ProductsArrive(s, "", "", "hood", "")
    \/ \E s \in Slots, ok \in BOOLEAN : ProductsAll(s, ok)
    \/ \E s \in Slots : Alone(s) /\ ProductArrive(s, 1, "")
    \/ \E s \in Slots : Alone(s) /\ ProductArrive(s, 0, "cosmic-explorer-tee")
    \/ \E s \in Slots, ok \in BOOLEAN : ProductSelect(s, ok)
    \/ \E s \in Slots, h \in Bearers : Alone(s) /\ AdminCreateArrive(s, h, "hoodie")
    \/ \E s \in Slots, ok \in BOOLEAN : AdminCreateInsert(s, ok)
    \/ \E s \in Slots, h \in Bearers : Alone(s) /\ AdminUpdateArrive(s, h, 1, "tee")
    \/ \E s \in Slots, ok \in BOOLEAN : AdminUpdateRun(s, ok)
    \/ \E s \in Slots, h \in Bearers : Alone(s) /\ AdminDeleteArrive(s, h, 1)
    \/ \E s \in Slots, ok \in BOOLEAN : AdminDeleteRun(s, ok)
    \/ \E s \in Slots, h \in Bearers : Alone(s) /\ SeedArrive(s, h)
    \/ \E s \in Slots, ok \in BOOLEAN : SeedInsert(s, ok)
    \/ \E s \in Slots, h \in Bearers : Alone(s) /\ WishlistGetArrive(s, h)
    \/ \E s \in Slots, ok \in BOOLEAN : WishlistGetSelect(s, ok)
    \/ \E s \in Slots, h \in Bearers : Alone(s) /\ WishlistAddArrive(s, h, 1)
    \/ \E s \in Slots, ok \in BOOLEAN : WishlistAddInsert(s, ok)
    \/ \E s \in Slots, h \in Bearers : Alone(s) /\ WishlistRemoveArrive(s, h, 1)
    \/ \E s \in Slots, ok \in BOOLEAN : WishlistRemoveRun(s, ok)
    \/ Start
    \/ \E ok \in BOOLEAN : BootExec(ok)
    \/ \E ok \in BOOLEAN : BootSelect(ok)

SpecFaults == InitSeeded /\ [][NextFaults]_vars

---------------------------------------------------------------------------
(* Claims about accounts *)

RegisterOf(s, email) ==
    /\ reqs[s].route = "register"
    /\ reqs[s].pc = "done"
    /\ reqs[s].email = email
    /\ reqs[s].msg # "Email and password required"

\* C1: no two rows of the user store share an email, whatever the order of
\* the register handlers' and the bootstrap's storage steps.
C1_EmailUnique ==
    \A u1 \in users, u2 \in users : u1.email = u2.email => u1 = u2

\* two register requests for one email both passed the existence check and
\* both ran their insert
C1_Witness ==
    \E s \in Slots, t \in Slots, email \in Emails :
        /\ s # t
        /\ RegisterOf(s, email) /\ reqs[s].status = 200
        /\ RegisterOf(t, email) /\ reqs[t].status = 500
        /\ Cardinality(UsersByEmail(email)) = 1

\* C2: of two register requests carrying the same email and a password, the
\* one that does not create the row is answered 400 'Email already
\* registered' and gets no token.
C2_LoserGetsConflict ==
    \A s \in Slots, t \in Slots, email \in Emails \ {""} :
        (s # t /\ RegisterOf(s, email) /\ RegisterOf(t, email)
              /\ reqs[s].status = 200)
        => /\ reqs[t].status = 400
           /\ reqs[t].msg = "Email already registered"
           /\ reqs[t].token = NoToken

AdminAccounts == {u \in users : u.email = AdminEmail /\ u.is_admin = 1}

\* C6: once a startup's bootstrap has run to its end, exactly one
\* administrative account with the admin email exists, whatever register
\* requests the listening server has served meanwhile.
C6_OneAdminAfterBootstrap ==
    boot \in {"done", "rejected"} => Cardinality(AdminAccounts) = 1

\* C9: the token of a successful register and the token of a successful
\* login with the same email carry the same user id, the same email and
\* admin flag 0.
C9_SameClaims ==
    \A s \in Slots, t \in Slots :
        (/\ reqs[s].route = "register" /\ reqs[s].status = 200
         /\ reqs[t].route = "login" /\ reqs[t].status = 200
         /\ (reqs[s].email = reqs[t].email \/ reqs[s].token.id = reqs[t].token.id))
        => /\ reqs[s].token.id = reqs[t].token.id
           /\ reqs[s].token.email = reqs[s].email
           /\ reqs[t].token.email = reqs[s].email
           /\ reqs[s].token.is_admin = 0
           /\ reqs[t].token.is_admin = 0

C9_Witness ==
    \E s \in Slots, t \in Slots :
        /\ reqs[s].route = "register" /\ reqs[s].status = 200
        /\ reqs[t].route = "login" /\ reqs[t].status = 200
        /\ reqs[s].email = reqs[t].email
        /\ \E u \in users : u.is_admin = 1

---------------------------------------------------------------------------
(* Claims about the access guard *)

AdminRoutes == {"admin create", "admin update", "admin delete", "seed"}

ProtectedRoutes ==
    AdminRoutes \cup {"me", "wishlist get", "wishlist add", "wishlist remove"}

BadCredentials == {"absent", "not bearer", "malformed", "wrongly signed", "expired"}

\* C3: a step of a request to an admin route that carries a valid token
\* without the admin flag answers 403 'Admin only' at once and leaves the
\* product store as it was; such a request never gets past the guard.
C3_NonAdminForbidden ==
    [][\A s \in Slots :
          (reqs'[s] # reqs[s] /\ reqs'[s].route \in AdminRoutes
              /\ reqs'[s].cred = "valid user")
          => /\ reqs'[s].pc = "done"
             /\ reqs'[s].status = 403
             /\ products' = products
             /\ productSeq' = productSeq]_vars

C3_Witness ==
    \E s \in Slots :
        /\ reqs[s].route \in AdminRoutes
        /\ reqs[s].cred = "valid user"
        /\ reqs[s].status = 403
        /\ products # {}

\* C4: a step of a request to a protected route that carries no header, a
\* header that does not start with 'Bearer ', or a malformed, wrongly signed
\* or expired token answers 401 at once, attaches no claims and leaves every
\* table as it was; such a request never reaches a storage statement.
C4_Unauthenticated ==
    [][\A s \in Slots :
          (reqs'[s] # reqs[s] /\ reqs'[s].route \in ProtectedRoutes
              /\ reqs'[s].cred \in BadCredentials)
          => /\ reqs'[s].pc = "done"
             /\ reqs'[s].status = 401
             /\ reqs'[s].user = NoClaims
             /\ reqs'[s].rows = {}
             /\ UNCHANGED dbVars]_vars

C4_Witness ==
    \E s \in Slots :
        /\ reqs[s].route = "wishlist remove"
        /\ reqs[s].cred = "expired"
        /\ reqs[s].status = 401
        /\ wishlists # {}

\* C5: no request is left without a response by a failed storage statement,
\* and none has its failure leave the handler uncaught: each is answered by
\* its own handler.
C5_EveryFailureAnswered ==
    \A s \in Slots : reqs[s].pc \notin {"hung", "uncaught"}

---------------------------------------------------------------------------
(* Claims about wishlists *)

WishlistRoutes == {"wishlist get", "wishlist add", "wishlist remove"}

\* C7: the store never holds two entries for one (user, product) pair; when
\* POST /api/wishlist runs its insert for a user and a product id, the store
\* holds exactly one entry for the pair afterwards and the request is
\* answered success; if the pair was stored already the store is left as it
\* was.
C7_AddIdempotent ==
    /\ [](\A w1 \in wishlists, w2 \in wishlists :
            (w1.user_id = w2.user_id /\ w1.product_id = w2.product_id
                /\ w1.product_id # NullId) => w1 = w2)
    /\ [][\A s \in Slots :
          (reqs[s].route = "wishlist add" /\ reqs[s].pc = "insert"
              /\ reqs'[s].pc = "done" /\ reqs[s].pid # NullId)
          => /\ reqs'[s].status = 200
             /\ Cardinality({w \in wishlists' : w.user_id = reqs[s].user.id
                                               /\ w.product_id = reqs[s].pid}) = 1
             /\ (WishOf(reqs[s].user.id, reqs[s].pid) # {} => wishlists' = wishlists)]_vars

\* two adds of one pair have both been answered success and one entry is stored
C7_Witness ==
    \E s \in Slots, t \in Slots :
        /\ s # t
        /\ reqs[s].route = "wishlist add" /\ reqs[s].status = 200
        /\ reqs[t].route = "wishlist add" /\ reqs[t].status = 200
        /\ reqs[s].user.id = reqs[t].user.id
        /\ reqs[s].pid = reqs[t].pid /\ reqs[s].pid # NullId
        /\ Cardinality(WishOf(reqs[s].user.id, reqs[s].pid)) = 1

\* C10: a storage step of a wishlist request inserts or deletes only entries
\* whose user_id is the id of the request's token claims, and a GET answers
\* only with such entries.
C10_WishlistIsolation ==
    [][\A s \in Slots :
          (reqs[s].route \in WishlistRoutes /\ reqs[s].pc \notin {"idle", "done"}
              /\ reqs'[s] # reqs[s])
          => /\ \A w \in (wishlists' \ wishlists) \cup (wishlists \ wishlists') :
                   w.user_id = reqs[s].user.id
             /\ \A id \in reqs'[s].rows :
                   \E w \in wishlists : w.id = id /\ w.user_id = reqs[s].user.id]_vars

\* a GET has answered with entries while another user has entries too
C10_Witness ==
    \E s \in Slots :
        /\ reqs[s].route = "wishlist get" /\ reqs[s].status = 200
        /\ reqs[s].rows # {}
        /\ \E w \in wishlists : w.user_id # reqs[s].user.id
        /\ \E w \in wishlists : w.user_id = reqs[s].user.id

---------------------------------------------------------------------------
(* Claims about the catalog query *)

FixedFragments ==
    {"SELECT * FROM products", " WHERE ", " AND ", "category = ?", "age_group = ?",
     "(name LIKE ? OR description LIKE ?)", " ORDER BY price ASC",
     " ORDER BY price DESC", " ORDER BY created_at DESC", " ORDER BY id DESC"}

Placeholders(fragment) ==
    IF fragment = "(name LIKE ? OR description LIKE ?)" THEN 2
    ELSE IF fragment \in {"category = ?", "age_group = ?"} THEN 1
    ELSE 0

RECURSIVE PlaceholderCount(_)
PlaceholderCount(sql) ==
    IF sql = <<>> THEN 0 ELSE Placeholders(Head(sql)) + PlaceholderCount(Tail(sql))

\* the WHERE clause of a list of conditions, of at most three
WhereClause(conditions) ==
    CASE Len(conditions) = 0 -> <<>>
      [] Len(conditions) = 1 -> <<" WHERE ", conditions[1]>>
      [] Len(conditions) = 2 -> <<" WHERE ", conditions[1], " AND ", conditions[2]>>
      [] OTHER -> <<" WHERE ", conditions[1], " AND ", conditions[2], " AND ",
                    conditions[3]>>

\* C8: the statement text consists of fixed fragments only, holds one
\* placeholder per bound value, its conditions are those of the present
\* filters joined by AND, and the parameters are the present filters' values
\* in placeholder order (the search text wrapped in % twice).
C8_Parameterised ==
    query # NoQuery =>
       LET wanted ==
              (IF query.category # "" THEN <<"category = ?">> ELSE <<>>)
              \o (IF query.age_group # "" THEN <<"age_group = ?">> ELSE <<>>)
              \o (IF query.q # "" THEN <<"(name LIKE ? OR description LIKE ?)">> ELSE <<>>)
           bound ==
              (IF query.category # "" THEN <<query.category>> ELSE <<>>)
              \o (IF query.age_group # "" THEN <<query.age_group>> ELSE <<>>)
              \o (IF query.q # "" THEN <<"%" \o query.q \o "%", "%" \o query.q \o "%">>
                  ELSE <<>>)
       IN /\ \A i \in DOMAIN query.sql : query.sql[i] \in FixedFragments
          /\ PlaceholderCount(query.sql) = Len(query.params)
          /\ query.params = bound
          /\ SubSeq(query.sql, 1, Len(query.sql) - 1)
                = <<"SELECT * FROM products">> \o WhereClause(wanted)

\* all three filters are present and one carries a quote
C8_Witness ==
    /\ query.category = "x' OR '1'='1"
    /\ query.age_group # ""
    /\ query.q # ""
    /\ Len(query.params) = 4
    /\ \E s \in Slots : reqs[s].route = "products" /\ reqs[s].status = 200

====
